---- MODULE Spec2Model ----
(***************************************************************************)
(* A model of the circuit breaker middleware of src/circuitbreaker.go:     *)
(* the Simple handler (its tripped flag, its metrics window, its Config),  *)
(* the request path ServeHTTP -> next -> RecordMetric -> checkAndSet, and   *)
(* the recovery goroutines checkAndSet starts on every trip.               *)
(*                                                                         *)
(* Time is counted in ticks.  Durations of samples are in nanoseconds, as   *)
(* Go's time.Duration is.  Threshold, a float64 in the code, is a rational  *)
(* [num, den]; a ratio the metrics return is a pair <<a, b>> standing for   *)
(* a / b, so every comparison of the code is exact integer arithmetic.      *)
(***************************************************************************)
EXTENDS Integers, Sequences, FiniteSets, TLC

VARIABLES
    cfg,        \* Simple.Config after Provision
    cbFactor,   \* Simple.cbFactor
    tripped,    \* Simple.tripped, read and written atomically
    window,     \* Simple.metrics: how many of each sample the rolling window holds
    pc,         \* pc[t]: where task t is in its call
    req,        \* req[t]: the locals and the result of the call task t is running
    tasks,      \* the recovery goroutines, sleeping ones in the order they were started
    nrec,       \* samples recorded since Provision, counted up to MaxWindow
    openFor,    \* ticks since the flag last went from 0 to 1, up to TripDuration
    disp,       \* the block of directives the caddyfile.Dispenser holds
    ret,        \* what the last call the host made of the module returned
    other,      \* a second Simple, provisioned separately
    phase,      \* the state the breaker of the README would be in
    seen        \* what an observer of the calls and of the flag has noted

\* the Simple the requests go through
simpleVars == <<cfg, cbFactor, tripped, window, pc, req, tasks, nrec, openFor>>

\* the host's side: configuration parsing, results of calls, the second Simple
hostVars == <<disp, ret, other>>

\* what a step of the Simple leaves alone
auxVars == <<disp, ret, other, phase, seen>>

vars == <<cfg, cbFactor, tripped, window, pc, req, tasks, nrec, openFor,
          disp, ret, other, phase, seen>>

----------------------------------------------------------------------------
(* Bounds of the model *)

\* the window holds at most MaxWindow samples
MaxWindow == 2

\* at most MaxTasks recovery goroutines are alive at a time
MaxTasks == 2

----------------------------------------------------------------------------
(* Program constants *)

factorLatency == 1

factorErrorRatio == 2

factorStatusCodeRatio == 3

\* time.Millisecond, in nanoseconds
Millisecond == 1000000

\* http.StatusServiceUnavailable
StatusServiceUnavailable == 503

BreakerBody == "Service Unavailable - Circuit Breaker Open"

typeCB ==
    [f \in {"latency", "error_ratio", "status_ratio"} |->
        CASE f = "latency" -> factorLatency
          [] f = "error_ratio" -> factorErrorRatio
          [] f = "status_ratio" -> factorStatusCodeRatio]

----------------------------------------------------------------------------
(* Inputs *)

\* the tasks that serve requests through ServeHTTP
HTTPTasks == {"h1"}

\* the tasks that call RecordMetric themselves, as the tests do, with any
\* sample and whatever the flag is: all that a second request in flight can
\* do to the breaker, such a caller can do too
Callers == {"d1"}

Threads == HTTPTasks \cup Callers

\* latencies of samples, in nanoseconds
Fast == 10 * Millisecond

Slow == 20 * Millisecond

\* status codes a caller of RecordMetric passes: a transport failure
\* (negative, zero), a success, a client error, a server error
StatusCodes == {-1, 0, 200, 404, 500}

\* the samples RecordMetric is called with
Samples ==
    {[code |-> c, latency |-> Fast] : c \in StatusCodes}
    \cup {[code |-> 200, latency |-> Slow]}

\* how next.ServeHTTP ends: the status the response recorder reports (0 when
\* the handler wrote nothing), whether it returned an error, how long it took
Outcomes ==
    {[wrote |-> c, err |-> FALSE, latency |-> Fast] : c \in {0, 200, 404, 500}}
    \cup {[wrote |-> c, err |-> TRUE, latency |-> Fast] : c \in {0, 200}}
    \cup {[wrote |-> 200, err |-> FALSE, latency |-> Slow]}

\* Threshold values: 1/2 (a ratio), 10 (milliseconds)
Thresholds == {[num |-> 1, den |-> 2], [num |-> 10, den |-> 1]}

\* provisioned configurations; TripDuration in ticks of the clock
Configs ==
    [Threshold : Thresholds,
     Factor : {"latency", "error_ratio", "status_ratio"},
     TripDuration : {1},
     MinRequests : {1, 2}]

----------------------------------------------------------------------------
(* memmetrics.RTMetrics: the rolling window and its queries *)

\* the number of samples of window w that are in the set S
RECURSIVE CountOf(_, _)
CountOf(w, S) ==
    IF S = {}
    THEN 0
    ELSE LET s == CHOOSE x \in S : TRUE
         IN  w[s] + CountOf(w, S \ {s})

EmptyWindow == [s \in Samples |-> 0]

TotalCount(w) == CountOf(w, Samples)

IsNetworkError(code) == code < 100 \/ code >= 600

NetworkErrorRatio(w) ==
    IF TotalCount(w) = 0
    THEN <<0, 1>>
    ELSE <<CountOf(w, {s \in Samples : IsNetworkError(s.code)}), TotalCount(w)>>

CountIn(w, lo, hi) == CountOf(w, {s \in Samples : s.code >= lo /\ s.code < hi})

ResponseCodeRatio(w, startA, endA, startB, endB) ==
    LET a == CountIn(w, startA, endA)
        b == CountIn(w, startB, endB)
    IN  IF b # 0 THEN <<a, b>> ELSE <<0, 1>>

\* LatencyHistogram() returns an error when there is nothing to merge
HistogramAvailable(w) == TotalCount(w) > 0

\* the latency at quantile qn/qd: the smallest recorded latency with at least
\* floor(q * n + 1/2) samples at or below it
LatencyAtQuantile(w, qn, qd) ==
    LET n == TotalCount(w)
        rank == (2 * qn * n + qd) \div (2 * qd)
        atOrBelow(v) == CountOf(w, {s \in Samples : s.latency <= v})
        ok == {s.latency : s \in {x \in Samples : w[x] > 0 /\ atOrBelow(x.latency) >= rank}}
    IN  CHOOSE v \in ok : \A u \in ok : v <= u

Record(w, statusCode, latency) ==
    [w EXCEPT ![[code |-> statusCode, latency |-> latency]] = @ + 1]

Reset(w) == EmptyWindow

----------------------------------------------------------------------------
(* checkAndSet's comparisons *)

RatioAtLeast(r, th) == r[1] * th.den >= th.num * r[2]

\* ratio > c.Threshold, for a ratio <<a, b>> with b > 0
RatioExceeds(r, th) == r[1] * th.den > th.num * r[2]

LatencyExceedsInNanoseconds(l, th) == l * th.den > th.num

\* float64(l.Nanoseconds())/float64(time.Millisecond) > c.Threshold
LatencyExceeds(l, th) == l * th.den > th.num * Millisecond

IsTrippedOnEitherRatio(f, w, th) ==
    CASE f = factorLatency ->
            LatencyExceeds(LatencyAtQuantile(w, 95, 100), th)
      [] OTHER ->
            \/ RatioExceeds(NetworkErrorRatio(w), th)
            \/ RatioExceeds(ResponseCodeRatio(w, 500, 600, 0, 600), th)

IsTrippedOnNetworkErrorsOnly(f, w, th) ==
    CASE f = factorErrorRatio ->
            RatioExceeds(NetworkErrorRatio(w), th)
      [] f = factorLatency ->
            LatencyExceeds(LatencyAtQuantile(w, 95, 100), th)
      [] f = factorStatusCodeRatio ->
            RatioExceeds(ResponseCodeRatio(w, 500, 600, 0, 600), th)
      [] OTHER -> FALSE

\* the switch on c.cbFactor: whether isTripped is set, on window w
IsTripped(f, w, th) ==
    CASE f = factorErrorRatio ->
            LET errorRatio == NetworkErrorRatio(w)
                statusRatio == ResponseCodeRatio(w, 500, 600, 0, 600)
            IN  RatioExceeds(errorRatio, th) \/ RatioExceeds(statusRatio, th)
      [] f = factorLatency ->
            LatencyExceeds(LatencyAtQuantile(w, 95, 100), th)
      [] f = factorStatusCodeRatio ->
            RatioExceeds(ResponseCodeRatio(w, 500, 600, 0, 600), th)
      [] OTHER -> FALSE

----------------------------------------------------------------------------
(* State *)

\* the locals of a call: the status and latency on their way to RecordMetric
\* (wrote: what the response recorder reports), and what the call has done so
\* far: the status and body ServeHTTP itself wrote, the error it returns, how
\* often it called next and RecordMetric
NoReq ==
    [kind |-> "none", wrote |-> 0, status |-> 0, latency |-> 0, err |-> FALSE,
     code |-> 0, body |-> "", next |-> 0, rec |-> 0]

\* the host has made no call yet
NoRet == [call |-> "none", err |-> "", val |-> ""]

\* no Simple
NoSimple == [cfg |-> "none"]

\* no request is in flight, no recovery goroutine was started
NoTraffic ==
    /\ pc = [t \in Threads |-> "idle"]
    /\ req = [t \in Threads |-> NoReq]
    /\ tasks = << >>
    /\ nrec = 0
    /\ openFor = 0

\* the observer has seen no call: seen.open[t], whether the flag was 1 when
\* the RecordMetric call task t is in was made and has been 1 since;
\* seen.since, how many samples were recorded since the flag last went from 1
\* to 0, up to MaxWindow, and -1 as long as it never did
NoSeen == [open |-> [t \in Threads |-> FALSE], since |-> -1]

\* the host parses nothing, has called nothing and runs one Simple
NoHost ==
    /\ disp = << >>
    /\ ret = NoRet
    /\ other = NoSimple
    /\ phase = "closed"
    /\ seen = NoSeen

Init ==
    /\ cfg \in Configs
    /\ cbFactor = typeCB[cfg.Factor]
    /\ tripped = 0
    /\ window = EmptyWindow
    /\ NoTraffic
    /\ NoHost

----------------------------------------------------------------------------
(* Simple.Provision *)

\* time.Second, in ticks of the clock: TripDuration is counted in ticks, of
\* 100 ms each
Second == 10

defaultTripDuration == 5 * Second

\* the MinRequests Provision sets when none is configured
defaultMinRequests == 10

\* the Config of new(Simple)
ZeroConfig ==
    [Threshold |-> [num |-> 0, den |-> 1], Factor |-> "", TripDuration |-> 0,
     MinRequests |-> 0]

\* the metrics of new(Simple): a nil pointer
NilMetrics == << >>

\* the configurations Provision is called with, as the JSON or the Caddyfile
\* gave them: fields left out, valid and invalid factors, durations of
\* 100 ms and 10 s
RawConfigs ==
    [Threshold : Thresholds \cup {ZeroConfig.Threshold},
     Factor : {"", "latency", "error_ratio", "status_ratio", "invalid"},
     TripDuration : {0, 1, 10 * Second},
     MinRequests : {-1, 0, 1, 5}]

\* memmetrics.NewRTMetrics(), called with no option: a new, empty window
NewRTMetrics == [mt |-> EmptyWindow, err |-> ""]

OnlyErrorRatioIsValid(f) == f = "error_ratio"

\* f, ok := typeCB[c.Factor]: ok
FactorIsValid(f) == f \in DOMAIN typeCB

MinRequestsDefaultsTo1(n) == IF n = 0 THEN 1 ELSE n

\* if c.MinRequests == 0 { c.MinRequests = 10 }
MinRequestsOrDefault(n) == IF n = 0 THEN defaultMinRequests ELSE n

\* Provision on the Simple s: the Simple it leaves and the error it returns
ProvisionOf(s) ==
    LET c1 == [s.cfg EXCEPT
                  !.Factor = IF @ = "" THEN "error_ratio" ELSE @,
                  !.MinRequests = MinRequestsOrDefault(@)]
        c2 == [c1 EXCEPT
                  !.TripDuration = IF @ = 0 THEN defaultTripDuration ELSE @]
        mt == NewRTMetrics
    IN  IF ~FactorIsValid(c1.Factor)
        THEN [simple |-> [s EXCEPT !.cfg = c1], err |-> "invalid factor"]
        ELSE IF mt.err # ""
        THEN [simple |-> [s EXCEPT !.cfg = c2], err |-> "cannot create new metrics"]
        ELSE [simple |-> [cfg |-> c2, cbFactor |-> typeCB[c2.Factor],
                          metrics |-> mt.mt, tripped |-> 0],
              err |-> ""]

\* a Simple decoded from its configuration, before Provision
InitProvision ==
    /\ cfg \in RawConfigs
    /\ cbFactor = 0
    /\ tripped = 0
    /\ window = NilMetrics
    /\ NoTraffic
    /\ NoHost

\* the host calls Provision
Provision ==
    /\ ret.call = "none"
    /\ LET r == ProvisionOf([cfg |-> cfg, cbFactor |-> cbFactor,
                             metrics |-> window, tripped |-> tripped])
       IN  /\ cfg' = r.simple.cfg
           /\ cbFactor' = r.simple.cbFactor
           /\ window' = r.simple.metrics
           /\ tripped' = r.simple.tripped
           /\ ret' = [call |-> "Provision", err |-> r.err, val |-> ""]
    /\ UNCHANGED <<pc, req, tasks, nrec, openFor, disp, other, phase, seen>>

NextProvision == Provision

SpecProvision == InitProvision /\ [][NextProvision]_vars

----------------------------------------------------------------------------
(* Simple.UnmarshalCaddyfile and parseCaddyfileHandler *)

\* a block has at most MaxLines lines
MaxLines == 3

\* the first token of a line: the four directives and one that is none
DirectiveNames == {"threshold", "factor", "trip_duration", "min_requests", "timeout"}

\* the second token of a line
ArgTokens == {"0.5", "10", "5s", "latency"}

\* the lines of a block: a directive name alone, or with one argument
Lines ==
    {<<n>> : n \in DirectiveNames}
    \cup {<<n, a>> : n \in DirectiveNames, a \in ArgTokens}

\* the blocks the dispenser holds
Blocks == UNION {[1..n -> Lines] : n \in 0..MaxLines}

\* d.NextArg(): there is one more token on the line
NextArg(line) == Len(line) >= 2

\* strconv.ParseFloat(tok, 64)
ParseFloat(tok) ==
    CASE tok = "0.5" -> [val |-> [num |-> 1, den |-> 2], err |-> ""]
      [] tok = "10" -> [val |-> [num |-> 10, den |-> 1], err |-> ""]
      [] OTHER -> [val |-> [num |-> 0, den |-> 1], err |-> "invalid syntax"]

\* strconv.Atoi(tok)
Atoi(tok) ==
    CASE tok = "10" -> [val |-> 10, err |-> ""]
      [] OTHER -> [val |-> 0, err |-> "invalid syntax"]

\* time.ParseDuration(tok): a number without a unit is no duration
ParseDuration(tok) ==
    CASE tok = "5s" -> [val |-> 5 * Second, err |-> ""]
      [] tok = "10" -> [val |-> 0, err |-> "missing unit in duration"]
      [] OTHER -> [val |-> 0, err |-> "invalid duration"]

SetFieldOfZeroConfigOnly(c, field, v) ==
    IF c = ZeroConfig THEN [c EXCEPT ![field] = v] ELSE c

SetFieldUnlessInvalidFactor(c, field, v) ==
    IF field = "Factor" /\ v \notin DOMAIN typeCB THEN c ELSE [c EXCEPT ![field] = v]

\* c.Threshold = val, c.Factor = d.Val(), c.TripDuration = ..., c.MinRequests = val
SetField(c, field, v) == [c EXCEPT ![field] = v]

\* UnmarshalCaddyfile on the Config c and the lines the dispenser still
\* holds: the Config it leaves and the error it returns
RECURSIVE UnmarshalCaddyfileOf(_, _)
UnmarshalCaddyfileOf(c, lines) ==
    IF lines = << >>
    THEN [cfg |-> c, err |-> ""]
    ELSE LET line == Head(lines)
             name == line[1]
             rest == Tail(lines)
         IN  IF name \notin {"threshold", "factor", "trip_duration", "min_requests"}
             THEN [cfg |-> c, err |-> "unrecognized subdirective"]
             ELSE IF ~NextArg(line)
             THEN [cfg |-> c, err |-> "wrong argument count"]
             ELSE CASE name = "threshold" ->
                         LET r == ParseFloat(line[2])
                         IN  IF r.err # ""
                             THEN [cfg |-> c, err |-> "invalid threshold value"]
                             ELSE UnmarshalCaddyfileOf(SetField(c, "Threshold", r.val), rest)
                    [] name = "factor" ->
                         UnmarshalCaddyfileOf(SetField(c, "Factor", line[2]), rest)
                    [] name = "trip_duration" ->
                         LET r == ParseDuration(line[2])
                         IN  IF r.err # ""
                             THEN [cfg |-> c, err |-> "invalid trip_duration"]
                             ELSE UnmarshalCaddyfileOf(SetField(c, "TripDuration", r.val), rest)
                    [] name = "min_requests" ->
                         LET r == Atoi(line[2])
                         IN  IF r.err # ""
                             THEN [cfg |-> c, err |-> "invalid min_requests value"]
                             ELSE UnmarshalCaddyfileOf(SetField(c, "MinRequests", r.val), rest)

\* the nil handler
NilHandler == [nil |-> TRUE, cfg |-> ZeroConfig]

ParseCaddyfileHandlerKeepsHandler(block) ==
    LET r == UnmarshalCaddyfileOf(ZeroConfig, block)
    IN  [handler |-> [nil |-> FALSE, cfg |-> r.cfg], err |-> r.err]

\* parseCaddyfileHandler on a block: the handler and the error it returns
ParseCaddyfileHandlerOf(block) ==
    LET r == UnmarshalCaddyfileOf(ZeroConfig, block)
    IN  IF r.err # ""
        THEN [handler |-> NilHandler, err |-> r.err]
        ELSE [handler |-> [nil |-> FALSE, cfg |-> r.cfg], err |-> ""]

\* a new Simple, and a block in the dispenser
InitParse ==
    /\ cfg = ZeroConfig
    /\ cbFactor = 0
    /\ tripped = 0
    /\ window = NilMetrics
    /\ NoTraffic
    /\ disp \in Blocks
    /\ ret = NoRet
    /\ other = NoSimple
    /\ phase = "closed"
    /\ seen = NoSeen

\* UnmarshalCaddyfile is called on the new Simple
UnmarshalCaddyfile ==
    /\ ret.call = "none"
    /\ LET r == UnmarshalCaddyfileOf(cfg, disp)
       IN  /\ cfg' = r.cfg
           /\ ret' = [call |-> "UnmarshalCaddyfile", err |-> r.err, val |-> ""]
    /\ UNCHANGED <<cbFactor, tripped, window, pc, req, tasks, nrec, openFor, disp, other,
                   phase, seen>>

\* the host calls parseCaddyfileHandler, which parses into a Simple of its own
ParseCaddyfileHandler ==
    /\ ret.call = "none"
    /\ LET r == ParseCaddyfileHandlerOf(disp)
       IN  ret' = [call |-> "parseCaddyfileHandler", err |-> r.err, val |-> r.handler]
    /\ UNCHANGED <<simpleVars, disp, other, phase, seen>>

NextParse ==
    \/ UnmarshalCaddyfile
    \/ ParseCaddyfileHandler

SpecParse == InitParse /\ [][NextParse]_vars

----------------------------------------------------------------------------
(* Simple.OK *)

AlwaysOK == TRUE

OK == tripped = 0

\* the host, or a test, calls OK() and gets its result
OKCall ==
    /\ ret' = [call |-> "OK", err |-> "", val |-> OK]
    /\ UNCHANGED <<simpleVars, disp, other, phase, seen>>

----------------------------------------------------------------------------
(* Simple.ServeHTTP, up to its call of RecordMetric *)

ServeHTTPRejectWithoutReturn(t) ==
    /\ pc[t] = "idle"
    /\ ~OK
    /\ pc' = [pc EXCEPT ![t] = "next"]
    /\ req' = [req EXCEPT ![t] =
            [NoReq EXCEPT !.kind = "http", !.code = StatusServiceUnavailable,
                          !.body = BreakerBody, !.next = @ + 1]]
    /\ UNCHANGED <<cfg, cbFactor, tripped, window, tasks, nrec, openFor>>

ServeHTTPRejectRecords(t) ==
    /\ pc[t] = "idle"
    /\ ~OK
    /\ pc' = [pc EXCEPT ![t] = "returned"]
    /\ req' = [req EXCEPT ![t] =
            [NoReq EXCEPT !.kind = "http", !.code = StatusServiceUnavailable,
                          !.body = BreakerBody, !.err = FALSE]]
    /\ window' = Record(window, 500, Fast)
    /\ UNCHANGED <<cfg, cbFactor, tripped, tasks, nrec, openFor>>

\* !c.OK(): 503, the fixed body, nil; next is not called
ServeHTTPReject(t) ==
    /\ pc[t] = "idle"
    /\ ~OK
    /\ pc' = [pc EXCEPT ![t] = "returned"]
    /\ req' = [req EXCEPT ![t] =
            [NoReq EXCEPT !.kind = "http", !.code = StatusServiceUnavailable,
                          !.body = BreakerBody, !.err = FALSE]]
    /\ UNCHANGED <<cfg, cbFactor, tripped, window, tasks, nrec, openFor>>

\* c.OK(): ServeHTTP calls next.ServeHTTP
ServeHTTPAdmit(t) ==
    /\ pc[t] = "idle"
    /\ OK
    /\ pc' = [pc EXCEPT ![t] = "next"]
    /\ req' = [req EXCEPT ![t] = [NoReq EXCEPT !.kind = "http", !.next = @ + 1]]
    /\ UNCHANGED <<cfg, cbFactor, tripped, window, tasks, nrec, openFor>>

EffectiveStatusAlways500(wrote, err) == 500

EffectiveStatusIgnoresErr(wrote, err) == wrote

\* the status ServeHTTP passes to RecordMetric
EffectiveStatus(wrote, err) == IF err THEN 500 ELSE wrote

\* next.ServeHTTP returns; ServeHTTP computes latency and status
NextServeHTTP(t) ==
    /\ pc[t] = "next"
    /\ \E o \in Outcomes :
          req' = [req EXCEPT ![t].wrote = o.wrote, ![t].err = o.err,
                             ![t].status = EffectiveStatus(o.wrote, o.err),
                             ![t].latency = o.latency]
    /\ pc' = [pc EXCEPT ![t] = "record"]
    /\ UNCHANGED <<cfg, cbFactor, tripped, window, tasks, nrec, openFor>>

\* the host is done with the request ServeHTTP returned from
Finish(t) ==
    /\ pc[t] = "returned"
    /\ pc' = [pc EXCEPT ![t] = "idle"]
    /\ req' = [req EXCEPT ![t] = NoReq]
    /\ UNCHANGED <<cfg, cbFactor, tripped, window, tasks, nrec, openFor>>

----------------------------------------------------------------------------
(* Simple.RecordMetric and Simple.checkAndSet *)

\* checkAndSet and RecordMetric return; ServeHTTP returns err
Return(t) ==
    IF req[t].kind = "http"
    THEN /\ pc' = [pc EXCEPT ![t] = "returned"]
         /\ UNCHANGED req
    ELSE /\ pc' = [pc EXCEPT ![t] = "idle"]
         /\ req' = [req EXCEPT ![t] = NoReq]

RecordSampleOverwrites(t, s) ==
    /\ TotalCount(window) < MaxWindow
    /\ window' = Record(EmptyWindow, s.code, s.latency)
    /\ nrec' = IF nrec < MaxWindow THEN nrec + 1 ELSE nrec
    /\ pc' = [pc EXCEPT ![t] = "check"]
    /\ UNCHANGED <<cfg, cbFactor, tripped, tasks, openFor>>

\* c.metrics.Record(statusCode, latency), the sample s
RecordSample(t, s) ==
    /\ TotalCount(window) < MaxWindow
    /\ window' = Record(window, s.code, s.latency)
    /\ nrec' = IF nrec < MaxWindow THEN nrec + 1 ELSE nrec
    /\ pc' = [pc EXCEPT ![t] = "check"]
    /\ UNCHANGED <<cfg, cbFactor, tripped, tasks, openFor>>

\* ServeHTTP calls RecordMetric(status, latency)
RecordMetric(t) ==
    /\ pc[t] = "record"
    /\ RecordSample(t, [code |-> req[t].status, latency |-> req[t].latency])
    /\ req' = [req EXCEPT ![t].wrote = 0, ![t].status = 0, ![t].latency = 0,
                          ![t].rec = @ + 1]

\* another caller calls RecordMetric(statusCode, latency)
RecordMetricCall(t) ==
    /\ pc[t] = "idle"
    /\ t \in Callers
    /\ \E s \in Samples : RecordSample(t, s)
    /\ req' = [req EXCEPT ![t] = [NoReq EXCEPT !.kind = "direct", !.rec = @ + 1]]

NoMinRequestsGate(w, min) == FALSE

\* c.metrics.TotalCount() < int64(c.MinRequests)
BelowMinRequests(w, min) == TotalCount(w) < min

\* checkAndSet's first test: return, or go on to the switch
CheckMinRequests(t) ==
    /\ pc[t] = "check"
    /\ IF BelowMinRequests(window, cfg.MinRequests)
       THEN Return(t)
       ELSE /\ pc' = [pc EXCEPT ![t] = "eval"]
            /\ UNCHANGED req
    /\ UNCHANGED <<cfg, cbFactor, tripped, window, tasks, nrec, openFor>>

EvalFactorStoresVerdict(t) ==
    /\ pc[t] = "eval"
    /\ IF cbFactor = factorLatency /\ ~HistogramAvailable(window)
       THEN Return(t) /\ UNCHANGED tripped
       ELSE IF IsTripped(cbFactor, window, cfg.Threshold)
            THEN /\ pc' = [pc EXCEPT ![t] = "store"]
                 /\ UNCHANGED <<req, tripped>>
            ELSE Return(t) /\ tripped' = 0
    /\ UNCHANGED <<cfg, cbFactor, window, tasks, nrec, openFor>>

EvalFactorTripsWithoutHistogram(t) ==
    /\ pc[t] = "eval"
    /\ IF (cbFactor = factorLatency /\ ~HistogramAvailable(window))
            \/ IsTripped(cbFactor, window, cfg.Threshold)
       THEN /\ pc' = [pc EXCEPT ![t] = "store"]
            /\ UNCHANGED req
       ELSE Return(t)
    /\ UNCHANGED <<cfg, cbFactor, tripped, window, tasks, nrec, openFor>>

\* the switch: isTripped is computed from the window as it is now
EvalFactor(t) ==
    /\ pc[t] = "eval"
    /\ IF cbFactor = factorLatency /\ ~HistogramAvailable(window)
       THEN Return(t)
       ELSE IF IsTripped(cbFactor, window, cfg.Threshold)
            THEN /\ pc' = [pc EXCEPT ![t] = "store"]
                 /\ UNCHANGED req
            ELSE Return(t)
    /\ UNCHANGED <<cfg, cbFactor, tripped, window, tasks, nrec, openFor>>

\* the goroutine checkAndSet starts: it has slept 0 ticks
NewTask == [pc |-> "sleep", slept |-> 0]

StoreTrippedArmsOnce(t) ==
    /\ pc[t] = "store"
    /\ Len(tasks) < MaxTasks
    /\ tripped' = 1
    /\ openFor' = IF tripped = 0 THEN 0 ELSE openFor
    /\ tasks' = IF tripped = 0 THEN Append(tasks, NewTask) ELSE tasks
    /\ Return(t)
    /\ UNCHANGED <<cfg, cbFactor, window, nrec>>

\* isTripped: store 1 and start the recovery goroutine
StoreTripped(t) ==
    /\ pc[t] = "store"
    /\ Len(tasks) < MaxTasks
    /\ tripped' = 1
    /\ openFor' = IF tripped = 0 THEN 0 ELSE openFor
    /\ tasks' = Append(tasks, NewTask)
    /\ Return(t)
    /\ UNCHANGED <<cfg, cbFactor, window, nrec>>

----------------------------------------------------------------------------
(* The recovery goroutine *)

SleepOverAtOnce(task, d) == TRUE

\* time.Sleep(d) returns once at least d has passed
SleepOver(task, d) == task.slept >= d

RemoveAt(s, i) == SubSeq(s, 1, i - 1) \o SubSeq(s, i + 1, Len(s))

\* atomic.StoreInt32(&c.tripped, 0), after the sleep; the goroutines that
\* are past their sleep are kept at the head of tasks
TaskWake(i) ==
    /\ tasks[i].pc = "sleep"
    /\ SleepOver(tasks[i], cfg.TripDuration)
    /\ tripped' = 0
    /\ tasks' = <<[tasks[i] EXCEPT !.pc = "reset"]>> \o RemoveAt(tasks, i)
    /\ UNCHANGED <<cfg, cbFactor, window, pc, req, nrec, openFor>>

TaskEndsWithoutReset(i) ==
    /\ tasks[i].pc = "reset"
    /\ tasks' = RemoveAt(tasks, i)
    /\ UNCHANGED <<cfg, cbFactor, tripped, window, pc, req, nrec, openFor>>

\* c.metrics.Reset(), and the goroutine ends
TaskReset(i) ==
    /\ tasks[i].pc = "reset"
    /\ window' = Reset(window)
    /\ tasks' = RemoveAt(tasks, i)
    /\ UNCHANGED <<cfg, cbFactor, tripped, pc, req, nrec, openFor>>

----------------------------------------------------------------------------
(* The environment: time passes, old samples leave the rolling window *)

Tick ==
    /\ \/ \E i \in DOMAIN tasks :
             tasks[i].pc = "sleep" /\ tasks[i].slept < cfg.TripDuration
       \/ tripped = 1 /\ openFor < cfg.TripDuration
    /\ tasks' = [i \in DOMAIN tasks |->
            IF tasks[i].pc = "sleep" /\ tasks[i].slept < cfg.TripDuration
            THEN [tasks[i] EXCEPT !.slept = @ + 1]
            ELSE tasks[i]]
    /\ openFor' = IF tripped = 1 /\ openFor < cfg.TripDuration
                  THEN openFor + 1 ELSE openFor
    /\ UNCHANGED <<cfg, cbFactor, tripped, window, pc, req, nrec>>

\* a sample leaves the rolling window
Expire ==
    /\ \E s \in Samples :
          /\ window[s] > 0
          /\ window' = [window EXCEPT ![s] = @ - 1]
    /\ UNCHANGED <<cfg, cbFactor, tripped, pc, req, tasks, nrec, openFor>>

----------------------------------------------------------------------------

Next ==
    \/ \E t \in HTTPTasks : ServeHTTPReject(t) /\ UNCHANGED auxVars
    \/ \E t \in HTTPTasks : ServeHTTPAdmit(t) /\ UNCHANGED auxVars
    \/ \E t \in HTTPTasks : NextServeHTTP(t) /\ UNCHANGED auxVars
    \/ \E t \in HTTPTasks : Finish(t) /\ UNCHANGED auxVars
    \/ \E t \in HTTPTasks : RecordMetric(t) /\ UNCHANGED auxVars
    \/ \E t \in Callers : RecordMetricCall(t) /\ UNCHANGED auxVars
    \/ \E t \in Threads : CheckMinRequests(t) /\ UNCHANGED auxVars
    \/ \E t \in Threads : EvalFactor(t) /\ UNCHANGED auxVars
    \/ \E t \in Threads : StoreTripped(t) /\ UNCHANGED auxVars
    \/ \E i \in DOMAIN tasks : TaskWake(i) /\ UNCHANGED auxVars
    \/ \E i \in DOMAIN tasks : TaskReset(i) /\ UNCHANGED auxVars
    \/ Tick /\ UNCHANGED auxVars
    \/ Expire /\ UNCHANGED auxVars

Spec == Init /\ [][Next]_vars

\* The callers record MaxWindow samples in all and then make no further call
\* that records one; time passes, and the Go scheduler runs every goroutine
\* that can run.
NextQuiet ==
    \/ \E t \in HTTPTasks : ServeHTTPReject(t) /\ UNCHANGED auxVars
    \/ \E t \in HTTPTasks : ServeHTTPAdmit(t) /\ UNCHANGED auxVars
    \/ \E t \in HTTPTasks : NextServeHTTP(t) /\ UNCHANGED auxVars
    \/ \E t \in HTTPTasks : Finish(t) /\ UNCHANGED auxVars
    \/ \E t \in HTTPTasks : nrec < MaxWindow /\ RecordMetric(t) /\ UNCHANGED auxVars
    \/ \E t \in Callers : nrec < MaxWindow /\ RecordMetricCall(t) /\ UNCHANGED auxVars
    \/ \E t \in Threads : CheckMinRequests(t) /\ UNCHANGED auxVars
    \/ \E t \in Threads : EvalFactor(t) /\ UNCHANGED auxVars
    \/ \E t \in Threads : StoreTripped(t) /\ UNCHANGED auxVars
    \/ \E i \in DOMAIN tasks : TaskWake(i) /\ UNCHANGED auxVars
    \/ \E i \in DOMAIN tasks : TaskReset(i) /\ UNCHANGED auxVars
    \/ Tick /\ UNCHANGED auxVars
    \/ Expire /\ UNCHANGED auxVars

SpecQuiet ==
    /\ Init
    /\ [][NextQuiet]_vars
    /\ WF_vars(Tick /\ UNCHANGED auxVars)
    /\ WF_vars(\E i \in DOMAIN tasks : TaskWake(i) /\ UNCHANGED auxVars)
    /\ WF_vars(\E i \in DOMAIN tasks : TaskReset(i) /\ UNCHANGED auxVars)

\* the breaker of the test of concurrent access: Factor latency, Threshold 0.5
InitPoll ==
    /\ Init
    /\ cfg.Factor = "latency"
    /\ cfg.Threshold = [num |-> 1, den |-> 2]

\* The calls come in a burst shorter than the period of the rolling window,
\* so that no sample leaves it, while OK() is polled.
NextPoll ==
    \/ \E t \in HTTPTasks : ServeHTTPReject(t) /\ UNCHANGED auxVars
    \/ \E t \in HTTPTasks : ServeHTTPAdmit(t) /\ UNCHANGED auxVars
    \/ \E t \in HTTPTasks : NextServeHTTP(t) /\ UNCHANGED auxVars
    \/ \E t \in HTTPTasks : Finish(t) /\ UNCHANGED auxVars
    \/ \E t \in HTTPTasks : RecordMetric(t) /\ UNCHANGED auxVars
    \/ \E t \in Callers : RecordMetricCall(t) /\ UNCHANGED auxVars
    \/ \E t \in Threads : CheckMinRequests(t) /\ UNCHANGED auxVars
    \/ \E t \in Threads : EvalFactor(t) /\ UNCHANGED auxVars
    \/ \E t \in Threads : StoreTripped(t) /\ UNCHANGED auxVars
    \/ \E i \in DOMAIN tasks : TaskWake(i) /\ UNCHANGED auxVars
    \/ \E i \in DOMAIN tasks : TaskReset(i) /\ UNCHANGED auxVars
    \/ Tick /\ UNCHANGED auxVars
    \/ OKCall

SpecPoll == InitPoll /\ [][NextPoll]_vars

\* The breaker the README describes, followed along one request at a time:
\* Closed goes to Open on a trip, Open to Half-Open when the trip duration
\* is over, Half-Open to Closed when the test request admitted then succeeds
\* and back to Open when it fails with a 5xx.
NextProbe ==
    \/ \E t \in HTTPTasks : ServeHTTPReject(t) /\ UNCHANGED auxVars
    \/ \E t \in HTTPTasks : ServeHTTPAdmit(t) /\ UNCHANGED auxVars
    \/ \E t \in HTTPTasks : NextServeHTTP(t) /\ UNCHANGED auxVars
    \/ \E t \in HTTPTasks : Finish(t) /\ UNCHANGED auxVars
    \/ \E t \in HTTPTasks :
          /\ RecordMetric(t)
          /\ phase' = IF phase = "half-open"
                      THEN IF req[t].status >= 500 THEN "open" ELSE "closed"
                      ELSE phase
          /\ UNCHANGED <<hostVars, seen>>
    \/ \E t \in HTTPTasks : CheckMinRequests(t) /\ UNCHANGED auxVars
    \/ \E t \in HTTPTasks : EvalFactor(t) /\ UNCHANGED auxVars
    \/ \E t \in HTTPTasks : StoreTripped(t) /\ phase' = "open" /\ UNCHANGED <<hostVars, seen>>
    \/ \E i \in DOMAIN tasks : TaskWake(i) /\ phase' = "half-open" /\ UNCHANGED <<hostVars, seen>>
    \/ \E i \in DOMAIN tasks : TaskReset(i) /\ UNCHANGED auxVars
    \/ Tick /\ UNCHANGED auxVars
    \/ Expire /\ UNCHANGED auxVars

SpecProbe == Init /\ [][NextProbe]_vars

\* What the observer notes in a step of the Simple: of every call of
\* RecordMetric, whether the flag is 1 when its Record is made (lines 119-120)
\* and stays 1, until the call returns; and the samples recorded since a
\* recovery goroutine last took the flag from 1 to 0 (line 163).
Observe ==
    seen' =
        [open |->
            [t \in Threads |->
                IF pc[t] # "check" /\ pc'[t] = "check"
                THEN tripped = 1
                ELSE /\ seen.open[t]
                     /\ pc'[t] \in {"check", "eval", "store"}
                     /\ tripped' = 1],
         since |->
            IF tripped = 1 /\ tripped' = 0
            THEN 0
            ELSE IF seen.since = -1 \/ seen.since = MaxWindow
                 THEN seen.since
                 ELSE IF \E t \in Threads : pc[t] # "check" /\ pc'[t] = "check"
                      THEN seen.since + 1
                      ELSE seen.since]

\* The requests and the calls of RecordMetric, in a burst shorter than the
\* period of the rolling window, with the observer looking on.
NextWatch ==
    \/ \E t \in HTTPTasks : ServeHTTPReject(t) /\ Observe /\ UNCHANGED <<hostVars, phase>>
    \/ \E t \in HTTPTasks : ServeHTTPAdmit(t) /\ Observe /\ UNCHANGED <<hostVars, phase>>
    \/ \E t \in HTTPTasks : NextServeHTTP(t) /\ Observe /\ UNCHANGED <<hostVars, phase>>
    \/ \E t \in HTTPTasks : Finish(t) /\ Observe /\ UNCHANGED <<hostVars, phase>>
    \/ \E t \in HTTPTasks : RecordMetric(t) /\ Observe /\ UNCHANGED <<hostVars, phase>>
    \/ \E t \in Callers : RecordMetricCall(t) /\ Observe /\ UNCHANGED <<hostVars, phase>>
    \/ \E t \in Threads : CheckMinRequests(t) /\ Observe /\ UNCHANGED <<hostVars, phase>>
    \/ \E t \in Threads : EvalFactor(t) /\ Observe /\ UNCHANGED <<hostVars, phase>>
    \/ \E t \in Threads : StoreTripped(t) /\ Observe /\ UNCHANGED <<hostVars, phase>>
    \/ \E i \in DOMAIN tasks : TaskWake(i) /\ Observe /\ UNCHANGED <<hostVars, phase>>
    \/ \E i \in DOMAIN tasks : TaskReset(i) /\ Observe /\ UNCHANGED <<hostVars, phase>>
    \/ Tick /\ Observe /\ UNCHANGED <<hostVars, phase>>

\* the breaker of the test of recovery: Factor error_ratio, a ratio as
\* Threshold
InitWatch ==
    /\ Init
    /\ cfg.Factor = "error_ratio"
    /\ cfg.Threshold = [num |-> 1, den |-> 2]

SpecWatch == InitWatch /\ [][NextWatch]_vars

----------------------------------------------------------------------------
(* A second Simple, made by another new(Simple) and another Provision. Its   *)
(* fields are in `other`; its methods are the same code, run on its fields,  *)
(* each call in one step.                                                    *)

\* the configuration of the second Simple
OtherConfig ==
    [Threshold |-> [num |-> 1, den |-> 2], Factor |-> "status_ratio",
     TripDuration |-> 1, MinRequests |-> 1]

\* how next.ServeHTTP of the second Simple ends: 200 or 500, no error
OtherOutcomes ==
    {o \in Outcomes : o.wrote \in {200, 500} /\ ~o.err /\ o.latency = Fast}

\* new(Simple) with its Config, then Provision: the Simple, with no recovery
\* goroutine yet
NewSimple(c) ==
    LET r == ProvisionOf([cfg |-> c, cbFactor |-> 0, metrics |-> NilMetrics,
                          tripped |-> 0])
    IN  [cfg |-> r.simple.cfg, cbFactor |-> r.simple.cbFactor,
         metrics |-> r.simple.metrics, tripped |-> r.simple.tripped,
         tasks |-> << >>]

\* the Simple of the requests has the policy of the tests, the second one
\* its own
InitPair ==
    /\ cfg \in Configs
    /\ cfg.Factor = "error_ratio"
    /\ cfg.Threshold = [num |-> 1, den |-> 2]
    /\ cbFactor = typeCB[cfg.Factor]
    /\ tripped = 0
    /\ window = EmptyWindow
    /\ NoTraffic
    /\ disp = << >>
    /\ ret = NoRet
    /\ other = NewSimple(OtherConfig)
    /\ phase = "closed"
    /\ seen = NoSeen

\* checkAndSet of the Simple o, on its window w: whether it trips
ChecksTripped(o, w) ==
    /\ ~BelowMinRequests(w, o.cfg.MinRequests)
    /\ ~(o.cbFactor = factorLatency /\ ~HistogramAvailable(w))
    /\ IsTripped(o.cbFactor, w, o.cfg.Threshold)

OtherRecordMetricOnSharedMetrics(statusCode, latency) ==
    /\ TotalCount(window) < MaxWindow
    /\ window' = Record(window, statusCode, latency)
    /\ other' = [other EXCEPT !.metrics = Record(window, statusCode, latency)]
    /\ UNCHANGED <<cfg, cbFactor, tripped, pc, req, tasks, nrec, openFor>>

\* RecordMetric(statusCode, latency) of the second Simple
OtherRecordMetric(statusCode, latency) ==
    LET w == Record(other.metrics, statusCode, latency)
    IN  /\ TotalCount(other.metrics) < MaxWindow
        /\ ChecksTripped(other, w) => Len(other.tasks) < MaxTasks
        /\ other' = IF ChecksTripped(other, w)
                    THEN [other EXCEPT !.metrics = w, !.tripped = 1,
                                       !.tasks = Append(@, NewTask)]
                    ELSE [other EXCEPT !.metrics = w]
        /\ UNCHANGED simpleVars

\* ServeHTTP of the second Simple, admitted: next ends with outcome o
OtherServeHTTP(o) ==
    /\ other.tripped = 0
    /\ OtherRecordMetric(EffectiveStatus(o.wrote, o.err), o.latency)

\* a recovery goroutine of the second Simple stores 0
OtherTaskWake(i) ==
    /\ other.tasks[i].pc = "sleep"
    /\ SleepOver(other.tasks[i], other.cfg.TripDuration)
    /\ other' = [other EXCEPT
                    !.tripped = 0,
                    !.tasks = <<[other.tasks[i] EXCEPT !.pc = "reset"]>>
                                \o RemoveAt(other.tasks, i)]
    /\ UNCHANGED simpleVars

\* a recovery goroutine of the second Simple calls Reset() and ends
OtherTaskReset(i) ==
    /\ other.tasks[i].pc = "reset"
    /\ other' = [other EXCEPT !.metrics = Reset(@),
                              !.tasks = RemoveAt(other.tasks, i)]
    /\ UNCHANGED simpleVars

\* time passes for the goroutines of the second Simple
OtherTick ==
    /\ \E i \in DOMAIN other.tasks :
          other.tasks[i].pc = "sleep" /\ other.tasks[i].slept < other.cfg.TripDuration
    /\ other' = [other EXCEPT !.tasks =
            [i \in DOMAIN other.tasks |->
                IF other.tasks[i].pc = "sleep"
                      /\ other.tasks[i].slept < other.cfg.TripDuration
                THEN [other.tasks[i] EXCEPT !.slept = @ + 1]
                ELSE other.tasks[i]]]
    /\ UNCHANGED simpleVars

\* requests go through both Simples, one at a time through each
NextPair ==
    \/ \E t \in HTTPTasks : ServeHTTPReject(t) /\ UNCHANGED auxVars
    \/ \E t \in HTTPTasks : ServeHTTPAdmit(t) /\ UNCHANGED auxVars
    \/ \E t \in HTTPTasks : NextServeHTTP(t) /\ UNCHANGED auxVars
    \/ \E t \in HTTPTasks : Finish(t) /\ UNCHANGED auxVars
    \/ \E t \in HTTPTasks : RecordMetric(t) /\ UNCHANGED auxVars
    \/ \E t \in HTTPTasks : CheckMinRequests(t) /\ UNCHANGED auxVars
    \/ \E t \in HTTPTasks : EvalFactor(t) /\ UNCHANGED auxVars
    \/ \E t \in HTTPTasks : StoreTripped(t) /\ UNCHANGED auxVars
    \/ \E i \in DOMAIN tasks : TaskWake(i) /\ UNCHANGED auxVars
    \/ \E i \in DOMAIN tasks : TaskReset(i) /\ UNCHANGED auxVars
    \/ Tick /\ UNCHANGED auxVars
    \/ \E o \in OtherOutcomes : OtherServeHTTP(o) /\ UNCHANGED <<disp, ret, phase, seen>>
    \/ \E i \in DOMAIN other.tasks : OtherTaskWake(i) /\ UNCHANGED <<disp, ret, phase, seen>>
    \/ \E i \in DOMAIN other.tasks : OtherTaskReset(i) /\ UNCHANGED <<disp, ret, phase, seen>>
    \/ OtherTick /\ UNCHANGED <<disp, ret, phase, seen>>

SpecPair == InitPair /\ [][NextPair]_vars

----------------------------------------------------------------------------
(* Two Simples that differ in Factor only, error_ratio and status_ratio, are *)
(* fed the same samples, call after call, within one trip duration.          *)

\* the configurations the two have in common: Threshold 0, 0.5 or 10
TwinConfigs ==
    [Threshold : Thresholds \cup {[num |-> 0, den |-> 1]},
     Factor : {"error_ratio"},
     TripDuration : {defaultTripDuration},
     MinRequests : {1, 2}]

\* the Simple of the requests, as a record of its fields
ThisSimple ==
    [cfg |-> cfg, cbFactor |-> cbFactor, metrics |-> window,
     tripped |-> tripped, tasks |-> tasks]

\* RecordMetric(statusCode, latency) on the Simple o, run to its end: the
\* Simple afterwards
RecordMetricOf(o, statusCode, latency) ==
    LET w == Record(o.metrics, statusCode, latency)
    IN  IF ChecksTripped(o, w)
        THEN [o EXCEPT !.metrics = w, !.tripped = 1, !.tasks = Append(@, NewTask)]
        ELSE [o EXCEPT !.metrics = w]

InitTwin ==
    /\ cfg \in TwinConfigs
    /\ cbFactor = typeCB[cfg.Factor]
    /\ tripped = 0
    /\ window = EmptyWindow
    /\ NoTraffic
    /\ disp = << >>
    /\ ret = NoRet
    /\ other = NewSimple([cfg EXCEPT !.Factor = "status_ratio"])
    /\ phase = "closed"
    /\ seen = NoSeen

\* the same sample is recorded by both
TwinRecordMetric(s) ==
    LET a == RecordMetricOf(ThisSimple, s.code, s.latency)
        b == RecordMetricOf(other, s.code, s.latency)
    IN  /\ TotalCount(window) < MaxWindow
        /\ Len(a.tasks) <= MaxTasks
        /\ window' = a.metrics
        /\ tripped' = a.tripped
        /\ tasks' = a.tasks
        /\ nrec' = IF nrec < MaxWindow THEN nrec + 1 ELSE nrec
        /\ other' = b
        /\ UNCHANGED <<cfg, cbFactor, pc, req, openFor, disp, ret, phase, seen>>

NextTwin == \E s \in Samples : TwinRecordMetric(s)

SpecTwin == InitTwin /\ [][NextTwin]_vars

----------------------------------------------------------------------------
(* Properties *)

\* task t leaves the place `at` of its call in this step
Leaves(t, at) == pc[t] = at /\ pc'[t] # at

\* task t is not inside a call
AtRest(t) == pc[t] \in {"idle", "returned"}

\* counts of the samples of window w, by status code
Count5xx(w) == CountOf(w, {s \in Samples : s.code \in 500..599})

CountHTTP(w) == CountOf(w, {s \in Samples : s.code \in 0..599})

CountNetworkErrors(w) == CountOf(w, {s \in Samples : s.code \notin 100..599})

\* a / b > Threshold, for b > 0; FALSE for b = 0, where the ratio is 0
Above(a, b) == b > 0 /\ a * cfg.Threshold.den > cfg.Threshold.num * b

\* C1: the minimum-requests gate.  A checkAndSet that reads a TotalCount()
\* below MinRequests returns without going on to the switch, without touching
\* the flag and without starting a recovery goroutine; the flag goes from 0
\* to 1 only in the store of a call that went past the gate; and as long as
\* fewer than MinRequests samples have been recorded since Provision, OK() is
\* true, whatever the samples, the factor and the threshold are.
C1_MinRequestsGate ==
    /\ [][\A t \in Threads :
            (Leaves(t, "check") /\ TotalCount(window) < cfg.MinRequests)
                => /\ pc'[t] \in {"idle", "returned"}
                   /\ tripped' = tripped
                   /\ tasks' = tasks]_vars
    /\ [][(tripped = 0 /\ tripped' = 1) => \E t \in Threads : Leaves(t, "store")]_vars
    /\ [](nrec < cfg.MinRequests => OK /\ tasks = << >>)

\* C1's case: MinRequests is 2, one sample was recorded, it alone would trip
\* the breaker, the call has returned and the breaker is closed
C1_Witness ==
    /\ cfg.MinRequests = 2
    /\ nrec = 1
    /\ TotalCount(window) = 1
    /\ IsTripped(cbFactor, window, cfg.Threshold)
    /\ \A t \in Threads : AtRest(t)
    /\ OK

\* C2: with Factor = error_ratio, the switch of a call that went past the
\* gate decides to trip exactly when, on the window as it is then, the share
\* of network errors among all samples is strictly above Threshold or the
\* share of 5xx among the samples with a status in [0, 600) is; and a call
\* that decided to trip stores 1 in the flag.
C2_ErrorRatio ==
    [][\A t \in Threads :
          /\ (cbFactor = factorErrorRatio /\ Leaves(t, "eval"))
                => ((pc'[t] = "store") <=>
                        \/ Above(CountNetworkErrors(window), TotalCount(window))
                        \/ Above(Count5xx(window), CountHTTP(window)))
          /\ (cbFactor = factorErrorRatio /\ Leaves(t, "store"))
                => tripped' = 1]_vars

\* C2's case: a call decided to trip on the network errors alone
C2_Witness ==
    \E t \in Threads :
        /\ cfg.Factor = "error_ratio"
        /\ pc[t] = "store"
        /\ Above(CountNetworkErrors(window), TotalCount(window))
        /\ ~Above(Count5xx(window), CountHTTP(window))

C5_Recovery ==
    /\ [][\A t \in Threads : Leaves(t, "store") => ~OK']_vars
    /\ (tripped = 1 /\ nrec = MaxWindow) ~> [](OK /\ TotalCount(window) = 0)

\* C5's case: the breaker is open, no further sample will be recorded, and
\* the sleep of the one recovery goroutine is over
C5_Witness ==
    /\ tripped = 1
    /\ nrec = MaxWindow
    /\ TotalCount(window) > 0
    /\ Len(tasks) = 1
    /\ tasks[1].pc = "sleep"
    /\ SleepOver(tasks[1], cfg.TripDuration)

\* C6: TripDuration is how long the circuit stays open: whenever the flag
\* goes from 1 back to 0, at least TripDuration has passed since it last
\* went from 0 to 1 (so that every request in between was answered 503).
C6_OpenForTripDuration ==
    [][(tripped = 1 /\ tripped' = 0) => openFor >= cfg.TripDuration]_vars

\* C7: a ServeHTTP that finds OK() false answers 503 with the fixed body,
\* returns nil and has not called next when it returns.
C7_RejectWhenOpen ==
    /\ [][\A t \in HTTPTasks :
            (Leaves(t, "idle") /\ ~OK)
                => /\ pc'[t] = "returned"
                   /\ req'[t].code = 503
                   /\ req'[t].body = "Service Unavailable - Circuit Breaker Open"
                   /\ req'[t].err = FALSE
                   /\ req'[t].next = 0]_vars
    /\ [](\A t \in HTTPTasks : req[t].code = 503 => req[t].next = 0)

\* C7's case: a request was answered 503 while the breaker is open
C7_Witness ==
    \E t \in HTTPTasks :
        /\ pc[t] = "returned"
        /\ req[t].code = 503
        /\ req[t].next = 0
        /\ ~OK

\* C8: a ServeHTTP that finds OK() false changes nothing of the breaker: the
\* window, the flag and the recovery goroutines are as before, RecordMetric
\* was not called and checkAndSet is not entered.
C8_RejectChangesNothing ==
    [][\A t \in HTTPTasks :
          (Leaves(t, "idle") /\ ~OK)
              => /\ window' = window
                 /\ tripped' = tripped
                 /\ tasks' = tasks
                 /\ nrec' = nrec
                 /\ req'[t].rec = 0
                 /\ pc'[t] \notin {"record", "check", "eval", "store"}]_vars

\* C8's case: a request was rejected while the window held samples and a
\* recovery goroutine was asleep
C8_Witness ==
    \E t \in HTTPTasks :
        /\ pc[t] = "returned"
        /\ req[t].code = 503
        /\ req[t].rec = 0
        /\ TotalCount(window) > 0
        /\ Len(tasks) = 1
        /\ tasks[1].pc = "sleep"

\* C9: a ServeHTTP that finds OK() true calls next once; when next returns
\* nil it records one sample with the status next wrote and the latency
\* measured; it returns, after checkAndSet, what next returned, having called
\* next once and RecordMetric once.
C9_PassThrough ==
    /\ [][\A t \in HTTPTasks :
            /\ (Leaves(t, "idle") /\ OK)
                  => (pc'[t] = "next" /\ req'[t].next = 1 /\ req'[t].rec = 0)
            /\ (Leaves(t, "record") /\ ~req[t].err)
                  => /\ window' = [window EXCEPT
                            ![[code |-> req[t].wrote, latency |-> req[t].latency]] = @ + 1]
                     /\ pc'[t] = "check"
                     /\ req'[t].rec = 1
            /\ (pc[t] \in {"record", "check", "eval", "store"})
                  => (req'[t].err = req[t].err /\ pc'[t] # "idle")]_vars
    /\ [](\A t \in HTTPTasks :
            (pc[t] = "returned" /\ req[t].code # 503)
                => (req[t].next = 1 /\ req[t].rec = 1))

\* C9's case: the one sample recorded so far is the 404 next wrote, and
\* ServeHTTP has returned nil
C9_Witness ==
    \E t \in HTTPTasks :
        /\ pc[t] = "returned"
        /\ ~req[t].err
        /\ req[t].next = 1
        /\ req[t].rec = 1
        /\ nrec = 1
        /\ window[[code |-> 404, latency |-> Fast]] = 1

\* C10: when next returns an error, ServeHTTP records one sample with status
\* 500, whatever next wrote: the counts of 5xx and of HTTP statuses go up by
\* one each, as for a response 500; and ServeHTTP returns the error.
C10_DownstreamError ==
    [][\A t \in HTTPTasks :
          /\ (Leaves(t, "record") /\ req[t].err)
                => /\ window' = [window EXCEPT
                          ![[code |-> 500, latency |-> req[t].latency]] = @ + 1]
                   /\ Count5xx(window') = Count5xx(window) + 1
                   /\ CountHTTP(window') = CountHTTP(window) + 1
          /\ (req[t].err /\ pc[t] \in {"record", "check", "eval", "store"})
                => (req'[t].err /\ pc'[t] # "idle")]_vars

\* C10's case: next wrote no 500 and returned an error, the one sample
\* recorded so far is a 500, and ServeHTTP has returned the error
C10_Witness ==
    \E t \in HTTPTasks :
        /\ pc[t] = "returned"
        /\ req[t].err
        /\ req[t].rec = 1
        /\ nrec = 1
        /\ Count5xx(window) = 1

\* the host's call `call` returns in this step
Returns(call) == ret.call = "none" /\ ret'.call = call

\* C11: Provision returns nil exactly when Factor, or "error_ratio" for an
\* empty Factor, is one of latency, error_ratio, status_ratio.  When it
\* returns nil, OK() is true, the metrics are a new window with
\* TotalCount() = 0 and cbFactor is the code of the factor; when it returns
\* an error, the metrics are still nil and the flag is untouched.
C11_Provision ==
    [][Returns("Provision") =>
          LET f == IF cfg.Factor = "" THEN "error_ratio" ELSE cfg.Factor
              valid == f \in {"latency", "error_ratio", "status_ratio"}
          IN  /\ (ret'.err = "") <=> valid
              /\ valid => /\ tripped' = 0
                          /\ window' = [s \in Samples |-> 0]
                          /\ cbFactor' = CASE f = "latency" -> 1
                                           [] f = "error_ratio" -> 2
                                           [] f = "status_ratio" -> 3
              /\ ~valid => /\ window' = << >>
                           /\ window' = window
                           /\ tripped' = tripped
                           /\ cbFactor' = cbFactor]_vars

\* C11's case: Provision has returned an error for the factor "invalid" and
\* has allocated no metrics
C11_Witness ==
    /\ ret.call = "Provision"
    /\ ret.err # ""
    /\ cfg.Factor = "invalid"
    /\ window = << >>

Mentions(block, name) == \E i \in DOMAIN block : block[i][1] = name

\* the argument of the last line of the block for the directive `name`
LastArgOf(block, name) ==
    LET last == CHOOSE i \in DOMAIN block :
                    /\ block[i][1] = name
                    /\ \A j \in DOMAIN block : block[j][1] = name => j <= i
    IN  block[last][2]

\* a directive the parser knows, with one argument that is a literal of its
\* kind: a float, any string, a duration, an integer
WellFormedLine(l) ==
    /\ Len(l) = 2
    /\ \/ l[1] = "threshold" /\ l[2] \in {"0.5", "10"}
       \/ l[1] = "factor"
       \/ l[1] = "trip_duration" /\ l[2] = "5s"
       \/ l[1] = "min_requests" /\ l[2] = "10"

WellFormed(block) == \A i \in DOMAIN block : WellFormedLine(block[i])

\* the Config the call of the parser has produced
Parsed == IF ret.call = "UnmarshalCaddyfile" THEN cfg ELSE ret.val.cfg

\* C14: on a block of well-formed directives UnmarshalCaddyfile (called
\* directly or through parseCaddyfileHandler) returns nil; each field that a
\* directive names holds the value of the argument (0.5 is 1/2, 5s is 50
\* ticks), each field that none names is zero; Factor is the argument as
\* written, whether or not it is one of the three valid values.
C14_Unmarshal ==
    (ret.call \in {"UnmarshalCaddyfile", "parseCaddyfileHandler"} /\ WellFormed(disp))
        => /\ ret.err = ""
           /\ Parsed.Threshold =
                 IF Mentions(disp, "threshold")
                 THEN IF LastArgOf(disp, "threshold") = "0.5"
                      THEN [num |-> 1, den |-> 2]
                      ELSE [num |-> 10, den |-> 1]
                 ELSE [num |-> 0, den |-> 1]
           /\ Parsed.Factor =
                 IF Mentions(disp, "factor") THEN LastArgOf(disp, "factor") ELSE ""
           /\ Parsed.TripDuration = IF Mentions(disp, "trip_duration") THEN 50 ELSE 0
           /\ Parsed.MinRequests = IF Mentions(disp, "min_requests") THEN 10 ELSE 0

\* C14's case: a threshold and a factor that is none of the three were
\* parsed; trip_duration and min_requests were not mentioned
C14_Witness ==
    /\ ret.call = "UnmarshalCaddyfile"
    /\ disp = <<(<<"threshold", "0.5">>), (<<"factor", "5s">>)>>
    /\ ret.err = ""
    /\ cfg.Factor = "5s"
    /\ cfg.Threshold = [num |-> 1, den |-> 2]
    /\ cfg.TripDuration = 0
    /\ cfg.MinRequests = 0

\* C15: when the block has a line with an unknown directive name, a known
\* directive without an argument, or a threshold, min_requests or
\* trip_duration whose argument is no float, integer or duration literal,
\* UnmarshalCaddyfile returns an error, and parseCaddyfileHandler returns
\* the nil handler with the error.
C15_ParseErrors ==
    LET known == {"threshold", "factor", "trip_duration", "min_requests"}
        bad(l) ==
            \/ l[1] \notin known
            \/ Len(l) = 1
            \/ l[1] = "threshold" /\ l[2] \notin {"0.5", "10"}
            \/ l[1] = "min_requests" /\ l[2] # "10"
            \/ l[1] = "trip_duration" /\ l[2] # "5s"
    IN  (ret.call \in {"UnmarshalCaddyfile", "parseCaddyfileHandler"}
            /\ \E i \in DOMAIN disp : bad(disp[i]))
            => /\ ret.err # ""
               /\ ret.call = "parseCaddyfileHandler" => ret.val.nil

\* C15's case: after a well-formed line, a min_requests that is no integer;
\* parseCaddyfileHandler has returned nil and the error
C15_Witness ==
    /\ ret.call = "parseCaddyfileHandler"
    /\ disp = <<(<<"threshold", "0.5">>), (<<"min_requests", "0.5">>)>>
    /\ ret.err # ""
    /\ ret.val.nil

\* C16: for a block of well-formed directives with no directive named
\* twice, UnmarshalCaddyfile on every permutation of the lines returns nil
\* and leaves the same Config.
C16_OrderInsignificant ==
    (/\ ret.call = "UnmarshalCaddyfile"
     /\ WellFormed(disp)
     /\ \A i, j \in DOMAIN disp : disp[i][1] = disp[j][1] => i = j)
        => \A p \in Permutations(DOMAIN disp) :
              UnmarshalCaddyfileOf(ZeroConfig, [i \in DOMAIN disp |-> disp[p[i]]])
                  = [cfg |-> cfg, err |-> ""]

\* C16's case: three directives, each named once, min_requests first
C16_Witness ==
    /\ ret.call = "UnmarshalCaddyfile"
    /\ ret.err = ""
    /\ Len(disp) = 3
    /\ WellFormed(disp)
    /\ \A i, j \in DOMAIN disp : disp[i][1] = disp[j][1] => i = j
    /\ disp[1][1] = "min_requests"
    /\ cfg.Factor = "latency"

\* task t calls c.metrics.Record in this step
Records(t) ==
    \/ pc[t] = "record" /\ pc'[t] = "check"
    \/ t \in Callers /\ pc[t] = "idle" /\ pc'[t] = "check"

\* C13, as the code has it: under every interleaving of RecordMetric calls,
\* OK() calls and recovery goroutines, with no sample leaving the window,
\* the flag is 0 or 1 and the window counts samples; every RecordMetric call
\* adds exactly its one sample to the window, whatever the other tasks are
\* doing; and the window loses samples only by the Reset() of a recovery
\* goroutine, which empties it.  So TotalCount() is the number of calls made
\* since the last Reset(): N only when no recovery goroutine has run.
C13_NoLostUpdates ==
    /\ [](tripped \in {0, 1} /\ \A s \in Samples : window[s] \in 0..MaxWindow)
    /\ [][\A t \in Threads :
            Records(t) =>
                /\ TotalCount(window') = TotalCount(window) + 1
                /\ \E s \in Samples : window' = [window EXCEPT ![s] = @ + 1]]_vars
    /\ [][window' # window =>
            \/ \E t \in Threads : Records(t)
            \/ /\ \E i \in DOMAIN tasks : tasks[i].pc = "reset"
               /\ Len(tasks') = Len(tasks) - 1
               /\ TotalCount(window') = 0]_vars

\* C13's case: two RecordMetric calls have recorded their samples at the
\* same time, neither has returned, OK() was called, and TotalCount() is 2
C13_Witness ==
    /\ pc["h1"] = "check"
    /\ pc["d1"] = "check"
    /\ ret.call = "OK"
    /\ nrec = 2
    /\ TotalCount(window) = 2

\* C13, as stated: at the moment the last of the calls in flight returns,
\* TotalCount() is the number of RecordMetric calls made (nrec, which counts
\* them up to MaxWindow, the most the window holds).
C13_TotalCountIsN ==
    [][((\E t \in Threads : ~AtRest(t)) /\ (\A t \in Threads : AtRest(t)'))
          => TotalCount(window') = nrec']_vars

\* C19: a call of OK() returns TRUE exactly when the flag is 0 (Closed) and
\* FALSE exactly when it is 1 (Open), and changes neither the flag, nor the
\* window, nor the recovery goroutines, nor anything else of the Simple,
\* wherever the other tasks are in their calls.
C19_OKIsPureRead ==
    [][ret' # ret =>
          /\ ret'.call = "OK"
          /\ ret'.val = (tripped = 0)
          /\ ret'.val = (tripped # 1)
          /\ tripped' = tripped
          /\ window' = window
          /\ tasks' = tasks
          /\ UNCHANGED <<cfg, cbFactor, pc, req, nrec, openFor>>]_vars

\* C19's case: OK() has returned FALSE while one RecordMetric call is
\* between its Record and its checkAndSet and a recovery goroutine is
\* between its store and its Reset(), which has closed the breaker since
C19_Witness ==
    /\ ret.call = "OK"
    /\ ret.val = FALSE
    /\ tripped = 0
    /\ \E t \in Threads : pc[t] = "check"
    /\ Len(tasks) >= 1
    /\ tasks[1].pc = "reset"

\* the recovery goroutines of ts that are past their sleep
PastSleep(ts) == {i \in DOMAIN ts : ts[i].pc = "reset"}

\* C20: a recovery goroutine is started with its sleep still to come; it
\* stores 0 in the flag only when TripDuration has passed since it was
\* started, and calls Reset() only after that store: every step in which a
\* goroutine gets past its sleep, the flag goes from 1 to 0, or a goroutine
\* empties the window, is the step of a goroutine that has slept
\* TripDuration.
C20_NoEarlyRecovery ==
    /\ [][Len(tasks') > Len(tasks) =>
            tasks'[Len(tasks')] = [pc |-> "sleep", slept |-> 0]]_vars
    /\ [][(Cardinality(PastSleep(tasks')) > Cardinality(PastSleep(tasks))
                \/ (tripped = 1 /\ tripped' = 0))
            => \E i \in DOMAIN tasks :
                  /\ tasks[i].pc = "sleep"
                  /\ tasks[i].slept >= cfg.TripDuration
                  /\ tasks'[1] = [pc |-> "reset", slept |-> tasks[i].slept]]_vars
    /\ [][(Len(tasks') < Len(tasks))
            => \E i \in DOMAIN tasks :
                  /\ tasks[i].pc = "reset"
                  /\ tasks[i].slept >= cfg.TripDuration
                  /\ TotalCount(window') = 0]_vars
    /\ [](\A i \in DOMAIN tasks : tasks[i].pc = "reset" => tasks[i].slept >= cfg.TripDuration)

\* C20's case: one goroutine has slept TripDuration and stored 0, while a
\* goroutine started later has not slept yet and the flag is 1 again
C20_Witness ==
    /\ Len(tasks) = 2
    /\ tasks[1].pc = "reset"
    /\ tasks[1].slept >= cfg.TripDuration
    /\ tasks[2].pc = "sleep"
    /\ tasks[2].slept = 0
    /\ tripped = 1

\* C17: the breaker has the three states of the README.  When the breaker
\* of the README is Open, with no request in flight, the flag is 1 and
\* requests are rejected: in particular after a test request, admitted once
\* the trip duration was over, has failed.
C17_HalfOpen ==
    (phase = "open" /\ \A t \in HTTPTasks : AtRest(t)) => tripped = 1

\* C18: two Simples provisioned separately share nothing.  A step of the
\* first (of its ServeHTTP, its RecordMetric or its recovery goroutines)
\* leaves the flag, the window, the result of OK() and the recovery
\* goroutines of the second as they are, and a step of the second leaves
\* those of the first as they are.
C18_Isolation ==
    /\ [][simpleVars' # simpleVars =>
            /\ other'.tripped = other.tripped
            /\ other'.metrics = other.metrics
            /\ (other'.tripped = 0) = (other.tripped = 0)
            /\ other'.tasks = other.tasks
            /\ other' = other]_vars
    /\ [][other' # other =>
            /\ tripped' = tripped
            /\ window' = window
            /\ (tripped' = 0) = (tripped = 0)
            /\ tasks' = tasks
            /\ simpleVars' = simpleVars]_vars

\* C18's case: the first Simple is open, on samples of its own, with its
\* recovery goroutine asleep, while the second is closed and holds the one
\* sample of a request it admitted
C18_Witness ==
    /\ tripped = 1
    /\ TotalCount(window) >= 1
    /\ Len(tasks) = 1
    /\ other.tripped = 0
    /\ other.tasks = << >>
    /\ TotalCount(other.metrics) = 1
    /\ other.metrics[[code |-> 200, latency |-> Fast]] = 1

\* C21: no re-evaluation while open.  A call of RecordMetric made while the
\* flag is 1, the flag staying 1 throughout (such as the call of a request
\* that was admitted before the trip and completes after it), does not go on
\* from the gate to the switch on the factor, does not get to the store of
\* the flag and starts no recovery goroutine.
C21_NoEvaluationWhileOpen ==
    [][\A t \in Threads :
          seen.open[t] =>
              /\ pc'[t] \notin {"eval", "store"}
              /\ ~Leaves(t, "store")
              /\ Len(tasks') <= Len(tasks)]_vars

\* C22: recovery is by time only.  No step of a call of RecordMetric, whatever
\* sample it recorded, takes the flag from 1 to 0: a step in which a caller
\* moves leaves an open breaker open; and every step that takes the flag from
\* 1 to 0 is the store of a recovery goroutine whose sleep is over.
C22_RecoveryByTimeOnly ==
    /\ [][(\E t \in Threads : pc'[t] # pc[t]) => (tripped = 1 => tripped' = 1)]_vars
    /\ [][(tripped = 1 /\ tripped' = 0) =>
            /\ pc' = pc
            /\ \E i \in DOMAIN tasks :
                  /\ tasks[i].pc = "sleep"
                  /\ SleepOver(tasks[i], cfg.TripDuration)
                  /\ tasks' = <<[tasks[i] EXCEPT !.pc = "reset"]>> \o RemoveAt(tasks, i)]_vars

\* C22's case: a successful, fast response was recorded while the breaker was
\* open, the call has returned, the window is no longer above the threshold,
\* and the breaker is still open, its recovery goroutine asleep
C22_Witness ==
    /\ tripped = 1
    /\ window[[code |-> 200, latency |-> Fast]] >= 1
    /\ ~IsTripped(cbFactor, window, cfg.Threshold)
    /\ \A t \in Threads : AtRest(t)
    /\ Len(tasks) = 1
    /\ tasks[1].pc = "sleep"
    /\ ~SleepOver(tasks[1], cfg.TripDuration)

\* the recovery goroutines among ts that are still in their sleep
Sleeping(ts) == {i \in DOMAIN ts : ts[i].pc = "sleep"}

\* C23: recovery goroutines are neither merged nor cancelled.  Every call
\* that decided to trip starts a goroutine of its own with its store of the
\* flag, whether or not the breaker is open and others are pending; a
\* goroutine that ends its sleep stores 0 whatever the flag is and whatever
\* trips came after it was started, leaving the goroutines started later
\* asleep; and a goroutine that ends has reset the window.
C23_NoDeduplication ==
    /\ [][\A t \in Threads :
            Leaves(t, "store") => tasks' = Append(tasks, NewTask)]_vars
    /\ [][Cardinality(Sleeping(tasks')) < Cardinality(Sleeping(tasks)) =>
            /\ tripped' = 0
            /\ Cardinality(Sleeping(tasks')) = Cardinality(Sleeping(tasks)) - 1
            /\ Len(tasks') = Len(tasks)]_vars
    /\ [][Len(tasks') < Len(tasks) =>
            /\ window' = EmptyWindow
            /\ Len(tasks') = Len(tasks) - 1
            /\ tripped' = tripped]_vars

\* C23's case: two recovery goroutines are alive; the older one has just
\* stored 0, closing the breaker, while the one of a later trip has not
\* slept at all yet
C23_Witness ==
    /\ Len(tasks) = 2
    /\ tasks[1].pc = "reset"
    /\ tasks[2].pc = "sleep"
    /\ tasks[2].slept = 0
    /\ tripped = 0
    /\ TotalCount(window) > 0

\* C24: degraded evaluation.  With Factor = latency, a checkAndSet that gets
\* to the switch when LatencyHistogram() fails returns at once: the flag is
\* left as it is, no recovery goroutine is started, the window is not
\* touched (what was recorded is not taken back), and the call returns as
\* any other does, ServeHTTP with the error of next and nothing written by
\* itself.
C24_DegradedEvaluation ==
    [][\A t \in Threads :
          (cbFactor = factorLatency /\ Leaves(t, "eval") /\ ~HistogramAvailable(window))
              => /\ tripped' = tripped
                 /\ tasks' = tasks
                 /\ window' = window
                 /\ nrec' = nrec
                 /\ pc'[t] \in {"idle", "returned"}
                 /\ req[t].kind = "http" =>
                        /\ pc'[t] = "returned"
                        /\ req'[t] = req[t]
                        /\ req'[t].code = 0
                        /\ req'[t].body = ""]_vars

\* C24's case: the checkAndSet of a request is at the switch, the breaker is
\* open and the window has been emptied since the call passed the gate
C24_Witness ==
    \E t \in HTTPTasks :
        /\ cfg.Factor = "latency"
        /\ pc[t] = "eval"
        /\ ~HistogramAvailable(window)
        /\ req[t].rec = 1
        /\ tripped = 1

\* C25: after a recovery only fresh samples count.  Once a recovery goroutine
\* has taken the flag from 1 to 0, no switch decides to trip and the flag
\* does not go back to 1 before at least MinRequests samples have been
\* recorded since, however the two steps of the goroutine (store 0, then
\* Reset()) fall among the steps of the requests.
C25_FreshSamplesAfterRecovery ==
    /\ [][\A t \in Threads :
            (Leaves(t, "eval") /\ tripped = 0
                    /\ seen.since # -1 /\ seen.since < cfg.MinRequests)
                => pc'[t] # "store"]_vars
    /\ [][(tripped = 0 /\ tripped' = 1 /\ seen.since # -1)
                => seen.since >= cfg.MinRequests]_vars

C27_ErrorRatioAtLeastAsSensitive ==
    /\ [][(other.tripped = 0 /\ other'.tripped = 1) => tripped' = 1]_vars
    /\ [][Len(other.tasks') > Len(other.tasks) =>
            (Len(tasks') > Len(tasks) \/ tripped = 1)]_vars
    /\ [](other.tripped = 1 => tripped = 1)

\* C27's case: both are open, the error_ratio breaker since an earlier call
\* than the status_ratio breaker
C27_Witness ==
    /\ other.cfg = [cfg EXCEPT !.Factor = "status_ratio"]
    /\ other.tripped = 1
    /\ tripped = 1
    /\ Len(other.tasks) = 1
    /\ Len(tasks) = 2

====
